---- MODULE Spec2Model ----
(***************************************************************************)
(* GeoSpyTia (src/main.py): the layer registry `layers`, the table of      *)
(* contents `tocListWidget`, the map canvas, and the handlers that change  *)
(* them.  The program is single-threaded: every handler runs to completion *)
(* inside the Qt event loop, so every handler is one atomic action.        *)
(*                                                                         *)
(* Encoding.                                                               *)
(*  - A layer name (os.path.basename of a path, or a table name) is an     *)
(*    integer 1..MaxName; 0 (EmptyText) stands for the empty string "".    *)
(*  - A Python dict is the sequence of its entries in iteration order      *)
(*    (insertion order; assigning to an existing key keeps its place).     *)
(*  - The table of contents is the sequence of its rows, row 0 first; a    *)
(*    row is [text |-> the checkbox's text, checked |-> its state].        *)
(*  - canvas.drawn is the sequence of artists drawn on the axes since the  *)
(*    last ax.clear(), canvas.cbars the number of colorbars ever created.  *)
(*  - outFile is what the last call did at the output path it was given    *)
(*    (status untouched / created / written, and the file left there);     *)
(*    a call that is given no output path leaves it untouched.             *)
(*  - added is a history variable the program does not have: the names     *)
(*    added and not removed since, oldest add first, a name added again    *)
(*    counting as its latest add.  No handler reads it.                    *)
(***************************************************************************)
EXTENDS Integers, Sequences, FiniteSets, TLC

VARIABLES layers, tocListWidget, currentRow, canvas, outFile, messages, call,
          added, handles

vars == <<layers, tocListWidget, currentRow, canvas, outFile, messages, call,
          added, handles>>

(* ------------------------------ bounds --------------------------------- *)
MaxName == 3
MaxData == 2
MaxDim == 2

Names == 1..MaxName
EmptyText == 0

\* Basenames ending in .tif/.tiff/.img are the odd names, basenames ending in
\* .shp and table names the even ones.
RasterNames == {n \in Names : n % 2 = 1}
VectorNames == {n \in Names : n % 2 = 0}

(* ------------------------- Python dict `layers` ------------------------ *)
Keys(d) == {d[i].name : i \in 1..Len(d)}

HasKey(d, k) == k \in Keys(d)

IndexOf(d, k) == CHOOSE i \in 1..Len(d) : d[i].name = k

Lookup(d, k) == d[IndexOf(d, k)]

NameSeq(d) == [i \in 1..Len(d) |-> d[i].name]

Entry(name, type, data) == [name |-> name, type |-> type, data |-> data]

\* d[k] = v when the replaced entry is dropped and v appended (not what dict does)
DictSetMoveToEnd(d, e) ==
    Append(SelectSeq(d, LAMBDA x : x.name # e.name), e)

\* layers[name] = {...}: an existing key keeps its position, a new key is appended
DictSet(d, e) ==
    IF HasKey(d, e.name)
    THEN [i \in 1..Len(d) |-> IF d[i].name = e.name THEN e ELSE d[i]]
    ELSE Append(d, e)

\* del layers[name]
DictDel(d, k) == SelectSeq(d, LAMBDA x : x.name # k)

RemoveAt(s, i) == [j \in 1..(Len(s) - 1) |-> IF j < i THEN s[j] ELSE s[j + 1]]

(* ------------------------------ updateDisplay -------------------------- *)
\* the walk without the `break`: every checked layer is drawn
WalkNoBreak(toc, d, i) ==
    LET F[j \in 0..Len(toc)] ==
            IF j = 0 THEN <<>>
            ELSE IF toc[j].checked /\ HasKey(d, toc[j].text)
                 THEN <<Lookup(d, toc[j].text)>> \o F[j - 1]
                 ELSE F[j - 1]
    IN F[i]

\* for item_index in range(count - 1, -1, -1): draw the first checked row whose
\* name is in layers, then break.  Rows are 1..Len(toc) here, row i = item i-1.
Walk(toc, d, i) ==
    LET F[j \in 0..Len(toc)] ==
            IF j = 0 THEN <<>>
            ELSE IF toc[j].checked /\ HasKey(d, toc[j].text)
                 THEN <<Lookup(d, toc[j].text)>>
                 ELSE F[j - 1]
    IN F[i]

\* a redraw that makes a new colorbar for every raster it draws
updateDisplayNewBar(toc, d, cv) ==
    LET drawn == Walk(toc, d, Len(toc))
    IN [drawn |-> drawn,
        cbars |-> IF drawn # <<>> /\ drawn[1].type = "raster" THEN cv.cbars + 1
                  ELSE cv.cbars]

\* ax.clear(); the walk; the colorbar is created once (hasattr(canvas, 'cbar'))
\* and afterwards updated in place.
updateDisplay(toc, d, cv) ==
    LET drawn == Walk(toc, d, Len(toc))
        raster == drawn # <<>> /\ drawn[1].type = "raster"
    IN [drawn |-> drawn,
        cbars |-> IF raster /\ cv.cbars = 0 THEN 1 ELSE cv.cbars]

(* -------------------------------- updateTOC ---------------------------- *)
\* tocListWidget.clear(), then one row per entry of layers in dict order, each
\* checkbox created checked.
TocRows(d) == [i \in 1..Len(d) |-> [text |-> d[i].name, checked |-> TRUE]]

\* row.text() of a QListWidgetItem() that was built without a text
ItemText(row) == EmptyText

(* ------------------------------ datasets ------------------------------- *)
\* A float/int cell value: a rational n/d, or an IEEE special value.
Num(n, d) == [k |-> "num", n |-> n, d |-> d]

Int2Cell(n) == Num(n, 1)

\* numpy 2-D array: shape (rows, cols), dtype, cells in row-major order
Array(shape, dtype, cells) == [shape |-> shape, dtype |-> dtype, cells |-> cells]

\* A raster file on disk as rasterio sees it.  ok: rasterio.open(path) succeeds;
\* profile: count, height, width, dtype and the georeferencing (crs, transform,
\* nodata, here one token geo); bands: the stored arrays, band b at bands[b].
RasterFile(count, shape, dtype, geo, bands) ==
    [ok |-> TRUE, count |-> count, shape |-> shape, dtype |-> dtype,
     geo |-> geo, bands |-> bands]

Unreadable ==
    [ok |-> FALSE, count |-> 0, shape |-> <<0, 0>>, dtype |-> "none",
     geo |-> 0, bands |-> <<>>]

\* A vector dataset (GeoDataFrame): ok: gpd.read_file / read_postgis succeeds;
\* id names the feature collection, how says which operation produced it.
Gdf(id, how) == [ok |-> TRUE, id |-> id, how |-> how]

NoGdf == [ok |-> FALSE, id |-> 0, how |-> "none"]

\* the files the user can pick in the Open dialog
OpenRasters ==
    {RasterFile(1, <<1, 1>>, "int16", 1,
                <<Array(<<1, 1>>, "int16", <<Int2Cell(v)>>)>>) : v \in 1..MaxData}
    \cup {Unreadable}

OpenVectors == {Gdf(v, "file") : v \in 1..MaxData} \cup {NoGdf}

\* What a geoprocessing or raster-algebra call did at its output path:
\* "untouched" (never opened for writing), "created" (opened for writing, the
\* write did not complete) or "written" (written and closed); file: the dataset
\* a reader of the path finds afterwards.
Out(status, file) == [status |-> status, file |-> file]

Untouched == Out("untouched", Unreadable)

(* --------------------------- float arithmetic -------------------------- *)
\* Cell values are exact rationals n/d (d > 0, lowest terms) plus inf, -inf and
\* nan; float32 rounding and the sign of zero are not modelled.
Inf(sign) == [k |-> "inf", n |-> sign, d |-> 0]

NaN == [k |-> "nan", n |-> 0, d |-> 0]

Abs(n) == IF n < 0 THEN -n ELSE n

Sign(n) == IF n < 0 THEN -1 ELSE IF n > 0 THEN 1 ELSE 0

Gcd(a, b) ==
    LET G[x \in 0..a, y \in 0..b] ==
            IF y = 0 THEN x ELSE IF x = 0 THEN y
            ELSE IF x >= y THEN G[x % y, y] ELSE G[x, y % x]
    IN G[a, b]

Norm(n, d) ==
    LET g == Gcd(Abs(n), Abs(d))
    IN Num(Sign(d) * (n \div g), Abs(d) \div g)

Neg(x) == IF x.k = "nan" THEN NaN ELSE [x EXCEPT !.n = -x.n]

FAdd(x, y) ==
    IF x.k = "nan" \/ y.k = "nan" THEN NaN
    ELSE IF x.k = "inf" /\ y.k = "inf" THEN (IF x.n = y.n THEN x ELSE NaN)
    ELSE IF x.k = "inf" THEN x
    ELSE IF y.k = "inf" THEN y
    ELSE Norm(x.n * y.d + y.n * x.d, x.d * y.d)

FSub(x, y) == FAdd(x, Neg(y))

\* a division that yields 0 where numpy yields inf or nan
ZeroDiv(x, y) ==
    IF x.k # "num" \/ y.k # "num" \/ y.n = 0 THEN Num(0, 1)
    ELSE Norm(x.n * y.d, x.d * y.n)

\* numpy true division: x / 0 is inf, -inf or nan (a RuntimeWarning, no exception)
FDiv(x, y) ==
    IF x.k = "nan" \/ y.k = "nan" THEN NaN
    ELSE IF x.k = "inf" THEN (IF y.k = "inf" THEN NaN
                              ELSE Inf(x.n * (IF y.n < 0 THEN -1 ELSE 1)))
    ELSE IF y.k = "inf" THEN Num(0, 1)
    ELSE IF y.n = 0 THEN (IF x.n = 0 THEN NaN ELSE Inf(Sign(x.n)))
    ELSE Norm(x.n * y.d, x.d * y.n)

\* t * 0.00341802 + 149 - 273.15 of a finite t = n/d is kept as the term
\* [k |-> "lst", n, d] (its exact numerator does not fit a 32-bit integer);
\* inf and nan pass through the affine map.
LstOf(t) == IF t.k = "num" THEN [k |-> "lst", n |-> t.n, d |-> t.d] ELSE t

(* -------------------------- int() and float() -------------------------- *)
\* A text is the sequence of its characters.
Digits == {"0", "1", "2", "3", "4", "5", "6", "7", "8", "9"}

DigitVal(c) ==
    CASE c = "0" -> 0 [] c = "1" -> 1 [] c = "2" -> 2 [] c = "3" -> 3
      [] c = "4" -> 4 [] c = "5" -> 5 [] c = "6" -> 6 [] c = "7" -> 7
      [] c = "8" -> 8 [] c = "9" -> 9

Lower(c) ==
    CASE c = "I" -> "i" [] c = "N" -> "n" [] c = "F" -> "f" [] c = "A" -> "a"
      [] c = "T" -> "t" [] c = "Y" -> "y" [] OTHER -> c

IsDigits(t) == t # <<>> /\ \A i \in 1..Len(t) : t[i] \in Digits

DigitsVal(t) ==
    LET V[i \in 0..Len(t)] == IF i = 0 THEN 0 ELSE 10 * V[i - 1] + DigitVal(t[i])
    IN V[Len(t)]

Pow10(k) == LET P[i \in 0..k] == IF i = 0 THEN 1 ELSE 10 * P[i - 1] IN P[k]

\* str.strip() of blanks
Strip(t) ==
    LET lo == IF \A i \in 1..Len(t) : t[i] = " " THEN Len(t) + 1
              ELSE CHOOSE i \in 1..Len(t) :
                       t[i] # " " /\ \A j \in 1..(i - 1) : t[j] = " "
        hi == IF lo > Len(t) THEN Len(t)
              ELSE CHOOSE i \in 1..Len(t) :
                       t[i] # " " /\ \A j \in (i + 1)..Len(t) : t[j] = " "
    IN SubSeq(t, lo, hi)

Signed(t) == t # <<>> /\ t[1] \in {"+", "-"}

Unsigned(t) == IF Signed(t) THEN Tail(t) ELSE t

\* a sign that is read and dropped
NoSign(t) == 1

SignOf(t) == IF Signed(t) /\ t[1] = "-" THEN -1 ELSE 1

\* int(text): blanks stripped, an optional sign, then decimal digits only;
\* anything else raises ValueError (ok = FALSE)
PyInt(text) ==
    LET body == Unsigned(Strip(text))
    IN IF IsDigits(body)
       THEN [ok |-> TRUE, val |-> SignOf(Strip(text)) * DigitsVal(body)]
       ELSE [ok |-> FALSE, val |-> 0]

\* float(text): blanks stripped, an optional sign, then "inf", "infinity" or
\* "nan" in any case, or digits with at most one point and at least one digit;
\* anything else raises ValueError.  Exponents are not in the sample texts.
PyFloat(text) ==
    LET t == Strip(text)
        body == [i \in 1..Len(Unsigned(t)) |-> Lower(Unsigned(t)[i])]
        points == {i \in 1..Len(body) : body[i] = "."}
        p == IF points = {} THEN Len(body) + 1 ELSE CHOOSE i \in points : TRUE
        whole == SubSeq(body, 1, p - 1)
        frac == SubSeq(body, p + 1, Len(body))
    IN IF body \in {<<"i", "n", "f">>, <<"i", "n", "f", "i", "n", "i", "t", "y">>}
       THEN [ok |-> TRUE, val |-> Inf(SignOf(t))]
       ELSE IF body = <<"n", "a", "n">>
       THEN [ok |-> TRUE, val |-> NaN]
       ELSE IF /\ Cardinality(points) <= 1
               /\ IsDigits(whole \o frac)
       THEN [ok |-> TRUE,
             val |-> Norm(SignOf(t) * DigitsVal(whole \o frac), Pow10(Len(frac)))]
       ELSE [ok |-> FALSE, val |-> NaN]

(* ------------------------------ numpy arrays --------------------------- *)
Rows(a) == a.shape[1]
Cols(a) == a.shape[2]

\* a[r, c], with a broadcast to a larger shape: an axis of length 1 repeats
At(a, r, c) ==
    a.cells[((IF Rows(a) = 1 THEN 1 ELSE r) - 1) * Cols(a)
            + (IF Cols(a) = 1 THEN 1 ELSE c)]

Max(a, b) == IF a >= b THEN a ELSE b

\* numpy broadcasting of two 2-D shapes: each axis must agree or be 1
CanBroadcast(s, t) ==
    /\ (s[1] = t[1] \/ s[1] = 1 \/ t[1] = 1)
    /\ (s[2] = t[2] \/ s[2] = 1 \/ t[2] = 1)

BroadcastShape(s, t) == <<Max(s[1], t[1]), Max(s[2], t[2])>>

\* elementwise f over two float arrays, broadcast
Elementwise(f(_, _), a, b) ==
    LET shape == BroadcastShape(a.shape, b.shape)
    IN Array(shape, "float32",
             [i \in 1..(shape[1] * shape[2]) |->
                 LET r == ((i - 1) \div shape[2]) + 1
                     c == ((i - 1) % shape[2]) + 1
                 IN f(At(a, r, c), At(b, r, c))])

Map(f(_), a) == [a EXCEPT !.cells = [i \in 1..Len(a.cells) |-> f(a.cells[i])],
                         !.dtype = "float32"]

\* ndarray.astype(np.float32)
AsFloat32(a) == [a EXCEPT !.dtype = "float32"]

(* ------------------------- program state bundle ------------------------ *)
\* The globals a handler works on: layers, tocListWidget (rows and current
\* row), canvas; raised: an exception left the function; open: the raster
\* dataset handles that are open.
Globals(d, toc, row, cv) ==
    [layers |-> d, toc |-> toc, row |-> row, canvas |-> cv, raised |-> FALSE,
     open |-> {}]

\* a handle that is closed when its block ends normally and left open when
\* an exception leaves the block (h = open(...); body; h.close())
CloseAtEnd(h, r) ==
    [r EXCEPT !.open = IF r.raised THEN @ \cup {h} ELSE (@ \cup {h}) \ {h}]

\* with rasterio.open(path) as h: body.  r is what the body did; h was open
\* throughout the body and is closed on the way out, however the body ended.
With(h, r) == [r EXCEPT !.open = (@ \cup {h}) \ {h}]

Raise(st) == [st EXCEPT !.raised = TRUE]

updateTOC(st) ==
    [st EXCEPT !.toc = TocRows(st.layers),
               !.row = -1,
               !.canvas = updateDisplay(TocRows(st.layers), st.layers, st.canvas)]

\* loadRaster: open, read band 1, register, updateTOC; open or read may raise
loadRaster(st, name, file) ==
    IF ~file.ok THEN Raise(st)
    ELSE With("filePath",
              IF file.count < 1 THEN Raise(st)
              ELSE updateTOC([st EXCEPT
                       !.layers = DictSet(@, Entry(name, "raster", file.bands[1]))]))

\* loadVector: gpd.read_file may raise; register, updateTOC
loadVector(st, name, gdf) ==
    IF ~gdf.ok THEN Raise(st)
    ELSE updateTOC([st EXCEPT !.layers = DictSet(@, Entry(name, "vector", gdf))])

Now == [Globals(layers, tocListWidget, currentRow, canvas) EXCEPT !.open = handles]

\* The handler returns: the globals become st, msgs were shown, c records the
\* call.  messages and call keep the trace of the last call that showed a message
\* box or reached a statement that writes a global; a call that did neither
\* (Silent) leaves no trace.
Return(st, msgs, c) ==
    /\ layers' = st.layers
    /\ tocListWidget' = st.toc
    /\ currentRow' = st.row
    /\ canvas' = st.canvas
    /\ messages' = msgs
    /\ call' = c
    /\ handles' = st.open

Silent ==
    UNCHANGED <<layers, tocListWidget, currentRow, canvas, messages, call, handles>>

\* an exception left the handler before it wrote a global or showed a box
Propagate(st) ==
    /\ UNCHANGED <<layers, tocListWidget, currentRow, canvas, messages, call>>
    /\ handles' = st.open

\* history: the call added name / removed name / did neither, unless it raised
Without(s, name) == SelectSeq(s, LAMBDA x : x # name)

NoteAdd(name, raised) ==
    added' = IF raised THEN added ELSE Append(Without(added, name), name)

NoteRemove(name) == added' = Without(added, name)

Msg(kind, title) == [kind |-> kind, title |-> title]

\* op: the handler; name: the layer name it was given; in: the payload it was
\* given; raised: an exception was caught inside it
Call(op, name, in, raised) == [op |-> op, name |-> name, in |-> in, raised |-> raised]

(* ================== raster algebra and vector geoprocessing ============= *)
Shapes == (1..MaxDim) \X (1..MaxDim)

Filled(shape, dtype, v) ==
    Array(shape, dtype, [i \in 1..(shape[1] * shape[2]) |-> Int2Cell(v)])

\* sample rasters: a 2-band 1x2 scene (band 1 = 3, 1; band 2 = 1, -1), a
\* 1-band 2x1 scene (0, 2), and one 1-band float raster of 1s for every shape
Landsat ==
    RasterFile(2, <<1, 2>>, "int16", 2,
               <<Array(<<1, 2>>, "int16", <<Int2Cell(3), Int2Cell(1)>>),
                 Array(<<1, 2>>, "int16", <<Int2Cell(1), Int2Cell(-1)>>)>>)

Thermal ==
    RasterFile(1, <<2, 1>>, "int16", 3,
               <<Array(<<2, 1>>, "int16", <<Int2Cell(0), Int2Cell(2)>>)>>)

Flat(shape) == RasterFile(1, shape, "float32", 1, <<Filled(shape, "float32", 1)>>)

IndexSources == {Landsat, Thermal, Unreadable}

\* texts typed into the band and distance fields
BandTexts == {<<>>, <<"0">>, <<"1">>, <<"2">>, <<"3">>, <<"-", "1">>, <<"x">>,
              <<" ", "1">>}

DistanceTexts == {<<>>, <<"a", "b", "c">>, <<"1", "0">>, <<"-", "2", ".", "5">>,
                  <<"i", "n", "f">>, <<"-", "I", "n", "f">>, <<"n", "a", "n">>}

\* the environment of one call: out: the output path can be written ("ok"),
\* cannot be opened for writing ("nocreate"), or the write fails after the file
\* was created ("nowrite"); reload: the written file can be read back; lib:
\* whether this build's geometry library rejects a non-finite buffer distance
\* ("raises") or computes with it ("accepts")
Env(out, reload, lib) == [out |-> out, reload |-> reload, lib |-> lib]

Envs ==
    {Env("ok", TRUE, l) : l \in {"raises", "accepts"}}
    \cup {Env("nocreate", TRUE, "raises"), Env("nowrite", TRUE, "raises"),
          Env("ok", FALSE, "raises")}

FairWeather == Env("ok", TRUE, "raises")

\* an optional argument: None, or a value
None == <<>>
Some(x) == <<x>>

\* what a tool has done when it reaches loadRaster / loadVector of its
\* output path, or its except branch: the message boxes shown, what it did at
\* the output path, the dataset now at that path if it goes on to load it
\* (load), and whether its except branch ran
Result(msgs, out, load, raised) ==
    [msgs |-> msgs, out |-> out, load |-> load, raised |-> raised, open |-> {}]

Success == Msg("information", "Success")
Failure == Msg("critical", "Error")

\* except Exception as e: QMessageBox.critical(...)
Except(msgs, out) == Result(Append(msgs, Failure), out, None, TRUE)

\* the output file a failed write leaves: the profile, no data
EmptyRaster(profile) ==
    [profile EXCEPT !.bands = [b \in 1..profile.count |->
                                  Filled(profile.shape, profile.dtype, 0)]]

\* a write-and-register that registers the result before it writes the file
RegisterThenWrite(type, file, fits, env) ==
    IF env.out # "ok" \/ ~fits
    THEN Result(<<Failure>>,
                IF env.out = "nocreate" THEN Untouched
                ELSE Out("created", IF type = "raster" THEN EmptyRaster(file)
                                    ELSE NoGdf),
                Some(file), TRUE)
    ELSE Result(<<Success>>, Out("written", file), Some(file), FALSE)

\* The tail every operation shares: write the result to the output path
\* (rasterio.open(outputFile, 'w', **profile) + dst.write(result, 1), or
\* gdf.to_file(outputPath)), show the success box, then go on to loadRaster /
\* loadVector the path.  fits: the array has the profile's height and width
\* (dst.write raises otherwise).  env.reload: the path can be read back.
WriteThenRegister(type, file, fits, env) ==
    IF env.out = "nocreate" THEN Except(<<>>, Untouched)
    ELSE LET onDisk == IF env.reload THEN file
                       ELSE IF type = "raster" THEN Unreadable ELSE NoGdf
             r == IF env.out = "nowrite" \/ ~fits
                  THEN Except(<<>>,
                           Out("created", IF type = "raster" THEN EmptyRaster(file)
                                          ELSE NoGdf))
                  ELSE Result(<<Success>>, Out("written", file), Some(onDisk), FALSE)
         IN IF type = "raster" THEN With("outputFile", r) ELSE r

\* the difference taken the other way round: (y - x) / (x + y)
SwappedDifference(a, b) ==
    Elementwise(LAMBDA x, y : FDiv(FSub(y, x), FAdd(x, y)), a, b)

\* lambda nir, red: (nir - red) / (nir + red)   (calculateNDVI, and the same
\* expression in calculateNDBI)
NormalizedDifference(a, b) ==
    Elementwise(LAMBDA x, y : FDiv(FSub(x, y), FAdd(x, y)), a, b)

\* lambda t, _: (t * 0.00341802 + 149) - 273.15
LandSurfaceTemperature(t) == Map(LstOf, t)

\* `if band2` for the text or None passed as band2
Truthy(opt) == opt # None /\ opt[1] # <<>>

\* a profile update that also sets count = 1 (the code leaves count alone)
SingleBandProfile(src) == [src EXCEPT !.dtype = "float32", !.count = 1]

\* profile = src.profile; profile.update(dtype=rasterio.float32)
FloatProfile(src) == [src EXCEPT !.dtype = "float32"]

\* the file rasterio.open(path, 'w', **profile) + dst.write(result, 1) leaves:
\* band 1 holds result, any further band of the profile stays empty
Written(profile, result) ==
    [profile EXCEPT !.bands = [b \in 1..profile.count |->
                                  IF b = 1 THEN result
                                  ELSE Filled(profile.shape, profile.dtype, 0)]]

\* calculateRasterIndex(rasterFile, band1, band2, outputFile, calculation);
\* tool names the lambda, band2 is None for LST
calculateRasterIndex(src, band1, band2, tool, env) ==
    LET i1 == PyInt(band1)
        i2 == IF Truthy(band2) THEN PyInt(band2[1]) ELSE [ok |-> TRUE, val |-> 0]
        read2 == Truthy(band2) /\ i2.val # 0
    IN IF ~i1.ok \/ ~i2.ok THEN Except(<<>>, Untouched)
       ELSE IF ~src.ok THEN Except(<<>>, Untouched)
       ELSE With("rasterFile",
            IF i1.val \notin 1..src.count THEN Except(<<>>, Untouched)
            ELSE IF read2 /\ i2.val \notin 1..src.count THEN Except(<<>>, Untouched)
            ELSE IF tool # "LST" /\ ~read2 THEN Except(<<>>, Untouched)
            ELSE LET data1 == AsFloat32(src.bands[i1.val])
                     result == IF tool = "LST" THEN LandSurfaceTemperature(data1)
                               ELSE NormalizedDifference(
                                        data1, AsFloat32(src.bands[i2.val]))
                     profile == FloatProfile(src)
                 IN WriteThenRegister("raster", Written(profile, result),
                                      result.shape = profile.shape, env))

calculateNDVI(src, redBand, nirBand, env) ==
    calculateRasterIndex(src, redBand, Some(nirBand), "NDVI", env)

calculateNDBI(src, swirBand, nirBand, env) ==
    calculateRasterIndex(src, swirBand, Some(nirBand), "NDBI", env)

\* an LST that hands its Band 2 text on to calculateRasterIndex
calculateLSTWithBand2(src, thermalBand, band2, env) ==
    calculateRasterIndex(src, thermalBand, Some(band2), "LST", env)

calculateLST(src, thermalBand, ignored, env) ==
    calculateRasterIndex(src, thermalBand, None, "LST", env)

\* uhi_data = lst_data - (ndvi_data + ndbi_data) / 2 with numpy broadcasting;
\* ok = FALSE: the shapes cannot be broadcast (ValueError)
Uhi(lst, ndvi, ndbi) ==
    IF ~CanBroadcast(ndvi.shape, ndbi.shape)
       \/ ~CanBroadcast(lst.shape, BroadcastShape(ndvi.shape, ndbi.shape))
    THEN [ok |-> FALSE, data |-> lst]
    ELSE [ok |-> TRUE,
          data |-> Elementwise(FSub, lst,
                       Map(LAMBDA x : FDiv(x, Num(2, 1)),
                           Elementwise(FAdd, ndvi, ndbi)))]

\* calculateOverlay(lstFile, ndviFile, ndbiFile, outputFile)
calculateOverlay(lstSrc, ndviSrc, ndbiSrc, env) ==
    IF ~lstSrc.ok THEN Except(<<>>, Untouched)
    ELSE With("lstFile",
         IF ~ndviSrc.ok THEN Except(<<>>, Untouched)
         ELSE With("ndviFile",
              IF ~ndbiSrc.ok THEN Except(<<>>, Untouched)
              ELSE With("ndbiFile",
                   LET uhi == Uhi(AsFloat32(lstSrc.bands[1]),
                                  AsFloat32(ndviSrc.bands[1]),
                                  AsFloat32(ndbiSrc.bands[1]))
                       profile == FloatProfile(lstSrc)
                   IN IF ~uhi.ok THEN Except(<<>>, Untouched)
                      ELSE WriteThenRegister("raster",
                               Written(profile, uhi.data),
                               uhi.data.shape = profile.shape, env))))

\* calculateBuffer(inputPath, outputPath, distance); env.lib: what
\* gdf.buffer(distance) does with a distance that is not finite
calculateBuffer(gdf, distance, env) ==
    LET d == PyFloat(distance)
    IN IF ~d.ok THEN Except(<<>>, Untouched)
       ELSE IF ~gdf.ok THEN Except(<<>>, Untouched)
       ELSE IF d.val.k # "num" /\ env.lib = "raises" THEN Except(<<>>, Untouched)
       ELSE WriteThenRegister("vector", Gdf(gdf.id, "buffer"), TRUE, env)

\* calculateClip(inputPath, clipPath, outputPath)
calculateClip(gdf, clip, env) ==
    IF ~gdf.ok \/ ~clip.ok THEN Except(<<>>, Untouched)
    ELSE WriteThenRegister("vector", Gdf(gdf.id, "clip"), TRUE, env)

\* calculateIntersect(inputPath1, inputPath2, outputPath)
calculateIntersect(gdf1, gdf2, env) ==
    IF ~gdf1.ok \/ ~gdf2.ok THEN Except(<<>>, Untouched)
    ELSE WriteThenRegister("vector", Gdf(gdf1.id, "intersection"), TRUE, env)

(* ------------------------------- handlers ------------------------------ *)
Init ==
    /\ layers = <<>>
    /\ tocListWidget = <<>>
    /\ currentRow = -1
    /\ canvas = [drawn |-> <<>>, cbars |-> 0]
    /\ outFile = Untouched
    /\ messages = <<>>
    /\ call = Call("initUI", EmptyText, <<>>, FALSE)
    /\ added = <<>>
    /\ handles = {}

\* openFile with a *.tif / *.tiff / *.img path: loadRaster(filePath)
OpenRaster ==
    \E name \in RasterNames, file \in OpenRasters :
        LET st == loadRaster(Now, name, file)
        IN /\ IF st.raised THEN Propagate(st)
              ELSE Return(st, <<>>, Call("loadRaster", name, file.bands[1], FALSE))
           /\ NoteAdd(name, st.raised)
           /\ outFile' = IF st.raised THEN outFile ELSE Untouched

\* openFile with a *.shp path: loadVector(filePath)
OpenVector ==
    \E name \in VectorNames, gdf \in OpenVectors :
        LET st == loadVector(Now, name, gdf)
        IN /\ IF st.raised THEN Silent
              ELSE Return(st, <<>>, Call("loadVector", name, gdf, FALSE))
           /\ NoteAdd(name, st.raised)
           /\ outFile' = IF st.raised THEN outFile ELSE Untouched

\* openFile with any other extension: a warning, nothing loaded
OpenUnsupported ==
    /\ Return(Now, <<Msg("warning", "Unsupported Format")>>,
              Call("openFile", EmptyText, <<>>, FALSE))
    /\ outFile' = Untouched /\ UNCHANGED added

\* loadDataFromDatabase(tableName)
LoadDataFromDatabase ==
    \E tableName \in VectorNames \cup {EmptyText}, gdf \in OpenVectors :
        /\ IF tableName = EmptyText
           THEN /\ Return(Now, <<Msg("warning", "Input Error")>>,
                          Call("loadDataFromDatabase", tableName, NoGdf, FALSE))
                /\ UNCHANGED added
           ELSE LET st == loadVector(Now, tableName, gdf)
                IN /\ Return(st,
                             IF st.raised THEN <<Msg("critical", "Error")>>
                             ELSE <<Msg("information", "Success")>>,
                             Call("loadDataFromDatabase", tableName, gdf, st.raised))
                   /\ NoteAdd(tableName, st.raised)
        /\ outFile' = Untouched

\* the user clicks a row of the table of contents: it becomes the current row
SelectRow ==
    \E r \in 0..(Len(tocListWidget) - 1) :
        /\ r # currentRow
        /\ currentRow' = r
        /\ UNCHANGED <<layers, tocListWidget, canvas, outFile, messages, call,
                       added, handles>>

\* the user clicks the checkbox of row r: stateChanged -> toggleLayer -> updateDisplay
ToggleLayer ==
    \E r \in 1..Len(tocListWidget) :
        LET toc == [tocListWidget EXCEPT ![r].checked = ~@]
        IN /\ Return([Now EXCEPT !.toc = toc,
                                 !.canvas = updateDisplay(toc, layers, canvas)],
                     <<>>, Call("toggleLayer", EmptyText, <<>>, FALSE))
           /\ outFile' = Untouched /\ UNCHANGED added

\* removeLayer: takeItem(currentRow); layerName = item.text(); del layers[layerName]
\* if present; updateDisplay.  After takeItem Qt makes the next row current, or
\* the previous one when the last row was taken.
RemoveLayer ==
    /\ IF currentRow >= 0
       THEN LET r == currentRow + 1
                item == tocListWidget[r]
                layerName == ItemText(item)
                toc == RemoveAt(tocListWidget, r)
                d == IF HasKey(layers, layerName) THEN DictDel(layers, layerName)
                     ELSE layers
                row == IF r <= Len(toc) THEN currentRow ELSE currentRow - 1
            IN /\ Return([Now EXCEPT !.layers = d, !.toc = toc, !.row = row,
                                     !.canvas = updateDisplay(toc, d, canvas)],
                         <<Msg("information", "Remove Layer")>>,
                         Call("removeLayer", EmptyText, <<>>, FALSE))
               /\ NoteRemove(item.text)
               /\ outFile' = Untouched
       ELSE Silent /\ UNCHANGED <<outFile, added>>

\* a newFile that clears the table of contents and forgets layers.clear()
newFileTocOnly(st) ==
    [st EXCEPT !.toc = <<>>, !.row = -1,
               !.canvas = updateDisplay(<<>>, st.layers, st.canvas)]

\* tocListWidget.clear(); layers.clear(); updateDisplay()
newFile(st) ==
    [st EXCEPT !.layers = <<>>, !.toc = <<>>, !.row = -1,
               !.canvas = updateDisplay(<<>>, <<>>, st.canvas)]

\* newFile: the question box; on No it returns, on Yes the table of contents and
\* layers are cleared and the display redrawn.  call.in: the reply.
NewFile ==
    \E reply \in {"Yes", "No"} :
        /\ IF reply = "No"
           THEN /\ Return(Now, <<Msg("question", "New File")>>,
                          Call("newFile", EmptyText, reply, FALSE))
                /\ UNCHANGED added
           ELSE /\ Return(newFile(Now),
                          <<Msg("question", "New File"),
                            Msg("information", "New File")>>,
                          Call("newFile", EmptyText, reply, FALSE))
                /\ added' = <<>>
        /\ outFile' = Untouched

(* ---------------- handlers: raster algebra, geoprocessing --------------- *)
\* output paths used with the tools: the first raster and the first vector name
ToolRasterNames == {n \in RasterNames : n <= 2}
ToolVectorNames == {n \in VectorNames : n <= 2}

\* what is typed into the dialog of NDVI / NDBI / LST, and the environment:
\* on the 2-band scene every text as Band 1 (with Band 2 = "2") and every text
\* as Band 2 (with Band 1 = "1" or "2"); every source with bands "1", "1"; every
\* environment with bands "1", "2"
IndexArgs ==
    {[src |-> Landsat, b1 |-> x, b2 |-> <<"2">>, env |-> FairWeather] :
        x \in BandTexts}
    \cup {[src |-> Landsat, b1 |-> x, b2 |-> y, env |-> FairWeather] :
        x \in {<<"1">>, <<"2">>}, y \in BandTexts}
    \cup {[src |-> f, b1 |-> <<"1">>, b2 |-> <<"1">>, env |-> FairWeather] :
        f \in IndexSources}
    \cup {[src |-> Landsat, b1 |-> <<"1">>, b2 |-> <<"2">>, env |-> e] :
        e \in Envs}

\* the three rasters picked in the overlay dialog: every triple of shapes; the
\* 2-band scene as the LST raster; an unreadable file in each place; every
\* environment
OverlayArgs ==
    {[lst |-> Flat(a), ndvi |-> Flat(b), ndbi |-> Flat(c), env |-> FairWeather] :
        a \in Shapes, b \in Shapes, c \in Shapes}
    \cup {[lst |-> Landsat, ndvi |-> Flat(a), ndbi |-> Flat(a),
           env |-> FairWeather] : a \in {<<1, 1>>, <<1, 2>>}}
    \cup {[lst |-> IF i = 1 THEN Unreadable ELSE Flat(<<1, 1>>),
           ndvi |-> IF i = 2 THEN Unreadable ELSE Flat(<<1, 1>>),
           ndbi |-> IF i = 3 THEN Unreadable ELSE Flat(<<1, 1>>),
           env |-> FairWeather] : i \in 1..3}
    \cup {[lst |-> Flat(<<1, 1>>), ndvi |-> Flat(<<1, 1>>),
           ndbi |-> Flat(<<1, 1>>), env |-> e] : e \in Envs}

\* the buffer dialog: every distance text under both library behaviours; an
\* unreadable input; every environment
BufferArgs ==
    {[gdf |-> Gdf(1, "file"), dist |-> t, env |-> Env("ok", TRUE, l)] :
        t \in DistanceTexts, l \in {"raises", "accepts"}}
    \cup {[gdf |-> g, dist |-> <<"1", "0">>, env |-> e] :
        g \in {Gdf(1, "file"), NoGdf}, e \in Envs}

VectorSources == {Gdf(1, "file"), NoGdf}

\* the clip and intersect dialogs: each input unreadable or not; every environment
TwoLayerArgs ==
    {[one |-> g, two |-> h, env |-> FairWeather] :
        g \in VectorSources, h \in VectorSources}
    \cup {[one |-> Gdf(1, "file"), two |-> Gdf(1, "file"), env |-> e] : e \in Envs}

\* Every outcome of every dialog, worked out once: in is what was entered, r
\* what the tool does with it up to its load of the output path.
NdviRuns ==
    {[in |-> a, r |-> calculateNDVI(a.src, a.b1, a.b2, a.env)] : a \in IndexArgs}

NdbiRuns ==
    {[in |-> a, r |-> calculateNDBI(a.src, a.b1, a.b2, a.env)] : a \in IndexArgs}

LstRuns ==
    {[in |-> a, r |-> calculateLST(a.src, a.b1, a.b2, a.env)] : a \in IndexArgs}

\* every LST call of the dialog again with every Band 2 text
LstVariantRuns ==
    {[in |-> [a EXCEPT !.b2 = t], r |-> calculateLST(a.src, a.b1, t, a.env)] :
        a \in IndexArgs, t \in BandTexts}

OverlayRuns ==
    {[in |-> a, r |-> calculateOverlay(a.lst, a.ndvi, a.ndbi, a.env)] :
        a \in OverlayArgs}

BufferRuns ==
    {[in |-> a, r |-> calculateBuffer(a.gdf, a.dist, a.env)] : a \in BufferArgs}

ClipRuns ==
    {[in |-> a, r |-> calculateClip(a.one, a.two, a.env)] : a \in TwoLayerArgs}

IntersectRuns ==
    {[in |-> a, r |-> calculateIntersect(a.one, a.two, a.env)] :
        a \in TwoLayerArgs}

\* The end of a tool: loadRaster(outputFile) / loadVector(outputPath)
\* inside the try when the tool got that far, an exception of the load landing
\* in the same except branch; then the handler returns.
\* the globals after the tail of a tool that got as far as r: loadRaster /
\* loadVector of the output path under name, when the tool reached it
AfterLoad(r, type, name) ==
    LET before == [Now EXCEPT !.open = @ \cup r.open]
    IN IF r.load = None THEN before
       ELSE IF type = "raster" THEN loadRaster(before, name, r.load[1])
       ELSE loadVector(before, name, r.load[1])

Finish(r, type, c) ==
    LET st == AfterLoad(r, type, c.name)
        raised == r.raised \/ st.raised
    IN /\ Return(st, IF st.raised THEN Append(r.msgs, Failure) ELSE r.msgs,
                 [c EXCEPT !.raised = raised])
       /\ outFile' = r.out
       /\ NoteAdd(c.name, raised)

CalculateNDVI ==
    \E run \in NdviRuns, name \in ToolRasterNames :
        Finish(run.r, "raster", Call("calculateRasterIndex", name, <<>>, FALSE))

CalculateNDBI ==
    \E run \in NdbiRuns, name \in ToolRasterNames :
        Finish(run.r, "raster", Call("calculateRasterIndex", name, <<>>, FALSE))

CalculateLST ==
    \E run \in LstRuns, name \in ToolRasterNames :
        Finish(run.r, "raster", Call("calculateRasterIndex", name, <<>>, FALSE))

\* the three rasters were read and their shapes are not all one
Mismatched(a) ==
    /\ a.lst.ok /\ a.ndvi.ok /\ a.ndbi.ok
    /\ ~(a.lst.shape = a.ndvi.shape /\ a.ndvi.shape = a.ndbi.shape)

\* call.in: Mismatched
CalculateOverlay ==
    \E run \in OverlayRuns, name \in ToolRasterNames :
        Finish(run.r, "raster",
               Call("calculateOverlay", name, Mismatched(run.in), FALSE))

\* call.in: the distance text
CalculateBuffer ==
    \E run \in BufferRuns, name \in ToolVectorNames :
        Finish(run.r, "vector", Call("calculateBuffer", name, run.in.dist, FALSE))

CalculateClip ==
    \E run \in ClipRuns, name \in ToolVectorNames :
        Finish(run.r, "vector", Call("calculateClip", name, <<>>, FALSE))

CalculateIntersect ==
    \E run \in IntersectRuns, name \in ToolVectorNames :
        Finish(run.r, "vector", Call("calculateIntersect", name, <<>>, FALSE))

\* The Calculate button of the NDVI / NDBI / LST dialog (performRasterCalculation)
\* and of the overlay dialog: the same calls, the trace keeping everything that
\* was entered in the dialog (call.in) and the dialog that made the call (call.op).
NdviDialog ==
    \E run \in NdviRuns, name \in ToolRasterNames :
        Finish(run.r, "raster", Call("ndviDialog", name, run.in, FALSE))

NdbiDialog ==
    \E run \in NdbiRuns, name \in ToolRasterNames :
        Finish(run.r, "raster", Call("ndbiDialog", name, run.in, FALSE))

LstDialog ==
    \E run \in LstRuns, name \in ToolRasterNames :
        Finish(run.r, "raster", Call("lstDialog", name, run.in, FALSE))

RasterOverlayDialog ==
    \E run \in OverlayRuns, name \in ToolRasterNames :
        Finish(run.r, "raster", Call("rasterOverlayDialog", name, run.in, FALSE))

Next ==
    \/ OpenRaster
    \/ OpenVector
    \/ OpenUnsupported
    \/ LoadDataFromDatabase
    \/ SelectRow
    \/ ToggleLayer
    \/ RemoveLayer
    \/ NewFile

Spec == Init /\ [][Next]_vars

\* the tools, with the checkboxes
ToolNext ==
    \/ CalculateNDVI
    \/ CalculateNDBI
    \/ CalculateLST
    \/ CalculateOverlay
    \/ CalculateBuffer
    \/ CalculateClip
    \/ CalculateIntersect
    \/ ToggleLayer

ToolSpec == Init /\ [][ToolNext]_vars

\* the raster algebra dialogs, with what was entered
(* ------------------------------- saveFile ------------------------------ *)
\* the two files saveFile writes for the chosen filePath: np.save writes every
\* raster payload to filePath (+ '.npy'), to_file writes every vector payload to
\* filePath; None: not written
NothingSaved == [npy |-> None, vec |-> None]

\* for layer_data in layers.values(): np.save / to_file, the first n layers
saveLayers(d, n) ==
    LET F[i \in 0..Len(d)] ==
            IF i = 0 THEN NothingSaved
            ELSE IF d[i].type = "raster"
                 THEN [F[i - 1] EXCEPT !.npy = Some(d[i].data)]
                 ELSE [F[i - 1] EXCEPT !.vec = Some(d[i].data)]
    IN F[n]

\* saveFile: a cancelled dialog returns; failAt: the layer whose write raises
\* (0: none does).  outFile records what was written at the chosen path.
SaveFile ==
    \E filePath \in {"", "out.tif"}, failAt \in 0..Len(layers) :
        IF filePath = ""
        THEN Silent /\ UNCHANGED <<outFile, added>>
        ELSE LET n == IF failAt = 0 THEN Len(layers) ELSE failAt - 1
             IN /\ Return(Now,
                          <<Msg(IF failAt = 0 THEN "information" ELSE "critical",
                                "Save File")>>,
                          Call("saveFile", EmptyText, <<>>, failAt # 0))
                /\ outFile' = Out(IF n = 0 THEN "untouched" ELSE "written",
                                  saveLayers(layers, n))
                /\ UNCHANGED added

SaveNext ==
    \/ OpenRaster
    \/ OpenVector
    \/ ToggleLayer
    \/ SaveFile

SaveSpec == Init /\ [][SaveNext]_vars

AlgebraNext ==
    \/ NdviDialog
    \/ NdbiDialog
    \/ LstDialog
    \/ RasterOverlayDialog

AlgebraSpec == Init /\ [][AlgebraNext]_vars

(* ======================= layer registry and display ===================== *)
Reverse(s) == [i \in 1..Len(s) |-> s[Len(s) + 1 - i]]

TocNames == [i \in 1..Len(tocListWidget) |-> tocListWidget[i].text]

\* the names in the order updateDisplay walks them: last row first
orderedTopToBottom == Reverse(TocNames)

AddOps == {"loadRaster", "loadVector", "loadDataFromDatabase",
           "calculateRasterIndex", "calculateOverlay",
           "calculateBuffer", "calculateClip", "calculateIntersect"}

\* the state a handler leaves when it has just registered call.name: updateTOC
\* left no current row, and every later handler overwrites call
AfterAdd ==
    /\ call.op \in AddOps
    /\ ~call.raised
    /\ call.name # EmptyText
    /\ currentRow = -1

Present(r) == HasKey(layers, tocListWidget[r].text)

Shown(r) == tocListWidget[r].checked /\ Present(r)

\* C1: the order walked by updateDisplay holds exactly the surviving names,
\* most recent add first, a name added again counting as its latest add.
C1_OrderIsMostRecentAddFirst == orderedTopToBottom = Reverse(added)

\* C2: the table of contents lists the layers of the current registry, and the
\* canvas shows the topmost checked one of them, or nothing when there is none.
C2_DisplayReflectsRegistry ==
    /\ TocNames = NameSeq(layers)
    /\ \/ /\ canvas.drawn = <<>>
          /\ \A r \in 1..Len(tocListWidget) : ~tocListWidget[r].checked
       \/ \E r \in 1..Len(tocListWidget) :
             /\ tocListWidget[r].checked
             /\ canvas.drawn = <<layers[r]>>
             /\ \A q \in (r + 1)..Len(tocListWidget) : ~tocListWidget[q].checked

\* C3: removeLayer with a row selected deletes that row's layer from layers and
\* keeps the other entries in their order.
C3_RemoveDeletesFromRegistry ==
    [][(call'.op = "removeLayer" /\ Len(tocListWidget') < Len(tocListWidget))
        => LET name == tocListWidget[currentRow + 1].text
           IN /\ ~HasKey(layers', name)
              /\ layers' = DictDel(layers, name)]_vars

\* C4: after an add under any name, that layer is the top row, is checked, and is
\* the first layer updateDisplay considers (so it is the one drawn).
C4_AddedLayerOnTop ==
    AfterAdd =>
        /\ tocListWidget # <<>>
        /\ tocListWidget[Len(tocListWidget)] = [text |-> call.name, checked |-> TRUE]
        /\ canvas.drawn = <<Lookup(layers, call.name)>>

\* C5: an add under a name that is already a key replaces that entry's payload
\* and leaves every other entry, and the order of the entries, as it was; the
\* rows the table of contents had for the other layers keep their relative order.
C5_ReAddKeepsOrder ==
    [][(AfterAdd' /\ HasKey(layers, call'.name))
        => LET name == call'.name
               others == {tocListWidget[r].text : r \in 1..Len(tocListWidget)}
                             \ {name}
           IN /\ Lookup(layers', name).data = call'.in
              /\ NameSeq(layers') = NameSeq(layers)
              /\ \A i \in 1..Len(layers) :
                     layers[i].name # name => layers'[i] = layers[i]
              /\ SelectSeq(TocNames', LAMBDA x : x \in others)
                     = SelectSeq(TocNames, LAMBDA x : x \in others)]_vars

\* C5 witness: a name that is not the last key was just added over two other
\* layers (a new key is always appended, so this add replaced an entry)
C5_Witness ==
    /\ AfterAdd
    /\ Len(layers) >= 3
    /\ IndexOf(layers, call.name) = 1
    /\ Lookup(layers, call.name).data = call.in
    /\ added[Len(added)] = call.name
    /\ Len(added) >= 3

\* C6: at most one layer is drawn: the first row from the top that is checked and
\* in layers; no row below it is drawn; when there is no such row nothing is drawn.
C6_DrawsTopmostVisibleOnly ==
    /\ Len(canvas.drawn) <= 1
    /\ (canvas.drawn = <<>>) <=> (\A r \in 1..Len(tocListWidget) : ~Shown(r))
    /\ canvas.drawn # <<>> =>
          \E r \in 1..Len(tocListWidget) :
              /\ Shown(r)
              /\ canvas.drawn[1] = Lookup(layers, tocListWidget[r].text)
              /\ \A q \in (r + 1)..Len(tocListWidget) : ~Shown(q)

\* C6 witness: the top row is unchecked, two rows below it are checked, and the
\* upper of the two is what is drawn
C6_Witness ==
    /\ Len(tocListWidget) >= 3
    /\ ~tocListWidget[Len(tocListWidget)].checked
    /\ tocListWidget[Len(tocListWidget) - 1].checked
    /\ tocListWidget[Len(tocListWidget) - 2].checked
    /\ canvas.drawn
         = <<Lookup(layers, tocListWidget[Len(tocListWidget) - 1].text)>>

\* C6 witness: rows exist, none is checked, nothing is drawn
C6_WitnessCleared ==
    /\ Len(tocListWidget) >= 2
    /\ \A r \in 1..Len(tocListWidget) : ~tocListWidget[r].checked
    /\ canvas.drawn = <<>>

(* ================= raster algebra and geoprocessing tools =============== *)
ToolOps == {"calculateRasterIndex", "calculateOverlay",
            "calculateBuffer", "calculateClip", "calculateIntersect"}

\* C7: a tool whose except branch ran leaves layers (contents and order), the
\* rows of the table of contents with their check states, and what is drawn as
\* they were before the call; and a tool changes layers only when it has written
\* its output file.
C7_FailedToolLeavesStateAlone ==
    [][(call'.op \in ToolOps)
        => /\ call'.raised => /\ layers' = layers
                              /\ tocListWidget' = tocListWidget
                              /\ canvas'.drawn = canvas.drawn
           /\ layers' # layers => outFile'.status = "written"]_vars

\* C7 witness: an index tool failed while writing its output (the file was
\* created, not written) over two layers, one of them hidden, one drawn
C7_Witness ==
    /\ call.op = "calculateRasterIndex"
    /\ call.raised
    /\ outFile.status = "created"
    /\ Len(layers) = 2
    /\ Len(tocListWidget) = 2
    /\ \E r \in 1..2 : ~tocListWidget[r].checked
    /\ canvas.drawn # <<>>

\* C7 witness: a tool wrote its output, the load of the output failed, and the
\* two layers are as they were
C7_WitnessReload ==
    /\ call.op \in ToolOps
    /\ call.raised
    /\ outFile.status = "written"
    /\ Len(layers) = 2
    /\ \E r \in 1..Len(tocListWidget) : ~tocListWidget[r].checked

\* the text reads as a finite number
IsFiniteNumber(text) == PyFloat(text).ok /\ PyFloat(text).val.k = "num"

\* C8: calculateBuffer with a distance text that is not a finite number ends in
\* its except branch, leaves the output path untouched and leaves layers alone.
C8_BufferRejectsNonFiniteDistance ==
    [][(call'.op = "calculateBuffer" /\ ~IsFiniteNumber(call'.in))
        => /\ call'.raised
           /\ outFile'.status = "untouched"
           /\ layers' = layers]_vars

\* C9: calculateOverlay on three readable rasters whose shapes are not all the
\* same ends in its except branch, writes no output and leaves layers alone.
C9_OverlayRejectsMismatchedShapes ==
    [][(call'.op = "calculateOverlay" /\ call'.in = TRUE)
        => /\ call'.raised
           /\ outFile'.status # "written"
           /\ layers' = layers]_vars

\* C10: the file an index tool or the overlay has written has one band and a
\* floating-point dtype.
C10_OutputIsSingleBandFloat ==
    (call.op \in {"calculateRasterIndex", "calculateOverlay"}
        /\ outFile.status = "written")
        => /\ outFile.file.count = 1
           /\ outFile.file.dtype = "float32"

(* ========================= raster algebra results ======================= *)
IndexDialogs == {"ndviDialog", "ndbiDialog", "lstDialog"}

AlgebraDialogs == IndexDialogs \cup {"rasterOverlayDialog"}

\* the raster a dialog's call takes its profile from: the input raster of an index
\* tool, the LST raster of the overlay
PrimaryInput == IF call.op = "rasterOverlayDialog" THEN call.in.lst ELSE call.in.src

\* width and height, band count, dtype, and CRS / transform / nodata
ProfileOf(f) == [shape |-> f.shape, count |-> f.count, dtype |-> f.dtype,
                 geo |-> f.geo]

\* C11: a file written by an index tool or the overlay has the profile of its
\* primary input (width, height, CRS, transform, nodata, and every other field)
\* except for dtype, which is float32.
C11_OutputKeepsPrimaryProfile ==
    (call.op \in AlgebraDialogs /\ outFile.status = "written")
        => ProfileOf(outFile.file)
               = [ProfileOf(PrimaryInput) EXCEPT !.dtype = "float32"]

\* C11 witness: the overlay wrote a 2x2 result from a 2x2 LST raster and smaller
\* NDVI and NDBI rasters
C11_Witness ==
    /\ call.op = "rasterOverlayDialog"
    /\ outFile.status = "written"
    /\ call.in.lst.shape = <<2, 2>>
    /\ call.in.ndvi.shape = <<1, 2>>
    /\ call.in.ndbi.shape = <<2, 1>>
    /\ outFile.file.shape = <<2, 2>>
    /\ outFile.file.geo = call.in.lst.geo

\* C11 witness: an index tool wrote its result from the int16 2-band scene
C11_WitnessIndex ==
    /\ call.op \in IndexDialogs
    /\ outFile.status = "written"
    /\ call.in.src = Landsat
    /\ outFile.file.dtype = "float32"

\* the cells of the band of the input raster that a band text names
BandCells(text) == call.in.src.bands[PyInt(text).val].cells

Zero == Num(0, 1)

\* C12: every cell of a result written by NDVI or NDBI is (a - b) / (a + b), a the
\* value of the band entered as Band 1 and b that of the band entered as Band 2;
\* where a = b and a is not 0 the cell is 0.
C12_NormalizedDifferenceOfBands ==
    (call.op \in {"ndviDialog", "ndbiDialog"} /\ outFile.status = "written")
        => LET a == BandCells(call.in.b1)
               b == BandCells(call.in.b2)
               out == outFile.file.bands[1].cells
           IN /\ Len(out) = Len(a)
              /\ \A i \in 1..Len(out) :
                     /\ out[i] = FDiv(FSub(a[i], b[i]), FAdd(a[i], b[i]))
                     /\ (a[i] = b[i] /\ a[i] # Zero) => out[i] = Zero

\* C12 witness: NDVI of bands 1 and 2 of the scene wrote (3 - 1) / (3 + 1) = 1/2
\* in the first cell
C12_Witness ==
    /\ call.op = "ndviDialog"
    /\ outFile.status = "written"
    /\ call.in.src = Landsat
    /\ BandCells(call.in.b1)[1] = Int2Cell(3)
    /\ BandCells(call.in.b2)[1] = Int2Cell(1)
    /\ outFile.file.bands[1].cells[1] = Num(1, 2)

\* C12 witness: NDBI of a band with itself wrote 0 in every cell
C12_WitnessEqualBands ==
    /\ call.op = "ndbiDialog"
    /\ outFile.status = "written"
    /\ call.in.src = Landsat
    /\ call.in.b1 = call.in.b2
    /\ \A i \in 1..2 : BandCells(call.in.b1)[i] # Zero
    /\ outFile.file.bands[1].cells = <<Zero, Zero>>

\* the text names a band of the input raster
ValidBand(text) ==
    /\ call.in.src.ok
    /\ PyInt(text).ok
    /\ PyInt(text).val \in 1..call.in.src.count

\* an NDVI / NDBI call on a readable raster with two valid bands, with an output
\* path that can be written and read back
SoundIndexCall ==
    /\ call.op \in {"ndviDialog", "ndbiDialog"}
    /\ ValidBand(call.in.b1)
    /\ ValidBand(call.in.b2)
    /\ call.in.env.out = "ok"
    /\ call.in.env.reload

\* the cells where a + b = 0
ZeroSumCells ==
    {i \in 1..Len(BandCells(call.in.b1)) :
        FAdd(BandCells(call.in.b1)[i], BandCells(call.in.b2)[i]) = Zero}

\* C13: NDVI / NDBI on bands with cells where a + b = 0 does not end in the except
\* branch: the output is written with inf or nan in those cells, and the result
\* is registered under the output name.
C13_ZeroSumDoesNotFail ==
    (SoundIndexCall /\ ZeroSumCells # {})
        => /\ ~call.raised
           /\ outFile.status = "written"
           /\ \A i \in ZeroSumCells :
                  outFile.file.bands[1].cells[i].k \in {"inf", "nan"}
           /\ HasKey(layers, call.name)
           /\ Lookup(layers, call.name).data = outFile.file.bands[1]

\* C13 witness: 1 and -1 in the second cell gave inf there, and the layer is drawn
C13_Witness ==
    /\ SoundIndexCall
    /\ call.in.src = Landsat
    /\ 2 \in ZeroSumCells
    /\ outFile.file.bands[1].cells[2] = Inf(1)
    /\ canvas.drawn = <<Lookup(layers, call.name)>>

\* C13 witness: 0 and 0 in the first cell gave nan there
C13_WitnessNaN ==
    /\ SoundIndexCall
    /\ call.in.src = Thermal
    /\ 1 \in ZeroSumCells
    /\ outFile.file.bands[1].cells[1] = NaN
    /\ ~call.raised

\* band texts that are empty, non-numeric, zero or negative, and those that name
\* a band beyond the count of the raster
BadBandText(text, src) ==
    \/ text \in {<<>>, <<"x">>, <<"0">>, <<"-", "1">>}
    \/ text = <<"3">> /\ src.count < 3
    \/ text = <<"2">> /\ src.count < 2

\* C14: an NDVI / NDBI call whose Band 1 or Band 2 text is empty, non-numeric,
\* zero, negative or beyond the band count ends in the except branch with the
\* error box shown, and leaves layers as it was.
C14_BadBandIndexFails ==
    [][(/\ call'.op \in {"ndviDialog", "ndbiDialog"}
        /\ \/ BadBandText(call'.in.b1, call'.in.src)
           \/ BadBandText(call'.in.b2, call'.in.src))
        => /\ call'.raised
           /\ messages' = <<Failure>>
           /\ outFile'.status = "untouched"
           /\ layers' = layers]_vars

\* C14 witness: NDVI with Band 2 = "0" failed over a layer registered before
C14_Witness ==
    /\ call.op = "ndviDialog"
    /\ call.in.src = Landsat
    /\ call.in.b1 = <<"1">>
    /\ call.in.b2 = <<"0">>
    /\ call.raised
    /\ messages = <<Failure>>
    /\ Len(layers) = 1

\* C14 witness: NDBI with Band 1 = "-1" failed
C14_WitnessNegative ==
    /\ call.op = "ndbiDialog"
    /\ call.in.src = Landsat
    /\ call.in.b1 = <<"-", "1">>
    /\ call.in.b2 = <<"2">>
    /\ call.raised
    /\ Len(layers) = 1

(* ============================== newFile ================================= *)
\* C15: newFile answered Yes leaves layers and the table of contents empty and
\* nothing drawn; answered No it leaves layers, the rows with their check states,
\* and the canvas as they were.
C15_NewFileClearsOrKeeps ==
    [][(call'.op = "newFile" /\ call' # call)
        => IF call'.in = "Yes"
           THEN /\ layers' = <<>>
                /\ tocListWidget' = <<>>
                /\ canvas'.drawn = <<>>
           ELSE /\ layers' = layers
                /\ tocListWidget' = tocListWidget
                /\ canvas' = canvas]_vars

\* C15 witness: Yes was answered after a raster had been drawn; all is cleared
C15_Witness ==
    /\ call.op = "newFile"
    /\ call.in = "Yes"
    /\ canvas.cbars = 1
    /\ layers = <<>>
    /\ tocListWidget = <<>>
    /\ canvas.drawn = <<>>

\* C15 witness: No was answered over three layers, one hidden, one selected
C15_WitnessDeclined ==
    /\ call.op = "newFile"
    /\ call.in = "No"
    /\ Len(layers) = 3
    /\ \E r \in 1..Len(tocListWidget) : ~tocListWidget[r].checked
    /\ currentRow >= 0
    /\ canvas.drawn # <<>>

(* ============================ the display =============================== *)
\* the colorbar is on the figure: canvas.figure.colorbar(...) put it there, and
\* ax.clear() of the map axes, the only thing that removes anything, leaves it
LegendShown == canvas.cbars > 0

DrawnTypes == [i \in 1..Len(canvas.drawn) |-> canvas.drawn[i].type]

\* C16: the display holds one raster with the legend, or one vector layer with no
\* legend, or no layer and no legend.
C16_DisplayIsOneOfThreeShapes ==
    \/ DrawnTypes = <<"raster">> /\ LegendShown
    \/ DrawnTypes = <<"vector">> /\ ~LegendShown
    \/ DrawnTypes = <<>> /\ ~LegendShown

\* C17: no more than one colorbar is ever created, and a redraw that draws a
\* raster when a colorbar exists creates none (it updates the one there is).
C17_OneColorbarUpdatedInPlace ==
    /\ [](canvas.cbars <= 1)
    /\ [][(canvas.cbars >= 1 /\ DrawnTypes' = <<"raster">>)
            => canvas'.cbars = canvas.cbars]_vars

\* C17 witness: with two rasters loaded, a toggle has redrawn a raster and there
\* is still one colorbar
C17_Witness ==
    /\ call.op = "toggleLayer"
    /\ Cardinality({i \in 1..Len(layers) : layers[i].type = "raster"}) >= 2
    /\ DrawnTypes = <<"raster">>
    /\ canvas.cbars = 1

(* ============================ file handles ============================ *)
\* C18: when an index tool or the overlay returns (loadRaster of the output
\* included), on success or after a failure at any step, no raster handle it
\* opened is still open.
C18_HandlesClosedOnEveryPath == call.op \in AlgebraDialogs => handles = {}

\* C18 witness: an index tool opened its input and its output and the write failed
C18_Witness ==
    /\ call.op \in IndexDialogs
    /\ call.raised
    /\ ValidBand(call.in.b1)
    /\ call.in.env.out = "nowrite"
    /\ outFile.status = "created"
    /\ handles = {}

\* C18 witness: the input was opened and read and the computation failed (a
\* second band of 0 makes data2 None, and the lambda raises on None)
C18_WitnessComputation ==
    /\ call.op \in {"ndviDialog", "ndbiDialog"}
    /\ call.raised
    /\ ValidBand(call.in.b1)
    /\ PyInt(call.in.b2).ok /\ PyInt(call.in.b2).val = 0
    /\ outFile.status = "untouched"
    /\ handles = {}

\* C18 witness: the input was opened and the band read failed
C18_WitnessBandRead ==
    /\ call.op \in IndexDialogs
    /\ call.raised
    /\ call.in.src.ok
    /\ PyInt(call.in.b1).ok
    /\ PyInt(call.in.b1).val \notin 1..call.in.src.count
    /\ handles = {}

\* C18 witness: the third input of the overlay could not be opened after two were
C18_WitnessLaterOpen ==
    /\ call.op = "rasterOverlayDialog"
    /\ call.raised
    /\ call.in.lst.ok /\ call.in.ndvi.ok /\ ~call.in.ndbi.ok
    /\ handles = {}

\* C18 witness: the output could not be created
C18_WitnessOutputOpen ==
    /\ call.op \in AlgebraDialogs
    /\ call.raised
    /\ call.in.env.out = "nocreate"
    /\ PrimaryInput.ok
    /\ handles = {}

\* C18 witness: the tool wrote its output and loadRaster registered it
C18_WitnessSuccess ==
    /\ call.op \in AlgebraDialogs
    /\ ~call.raised
    /\ outFile.status = "written"
    /\ HasKey(layers, call.name)
    /\ handles = {}

(* ===================== removal and visibility ========================= *)
\* the names of the rows of the table of contents, as updateTOC set them
Listed == {tocListWidget[i].text : i \in 1..Len(tocListWidget)}

DrawnNames == {canvas.drawn[i].name : i \in 1..Len(canvas.drawn)}

NotRemoved == {added[i] : i \in 1..Len(added)}

\* C19: a layer that was removed and not added again since is neither listed
\* in the table of contents nor drawn.
C19_RemovedLayerStaysAway ==
    /\ Listed \subseteq NotRemoved
    /\ DrawnNames \subseteq NotRemoved

\* the state of the checkbox of the row(s) of layer n in table of contents toc
Flag(toc, n) == {toc[i].checked : i \in {j \in 1..Len(toc) : toc[j].text = n}}

\* the step is the user clicking the checkbox of layer n
Toggles(n) ==
    /\ call'.op = "toggleLayer"
    /\ \E r \in 1..Len(tocListWidget) :
           /\ tocListWidget[r].text = n
           /\ tocListWidget' = [tocListWidget EXCEPT ![r].checked = ~@]

\* C20: the visibility flag of a layer listed before and after a step changes
\* only when the step toggles that layer or adds a layer under its name.
C20_VisibilityChangesOnlyByOwnToggleOrAdd ==
    [][\A n \in Names :
          (/\ Flag(tocListWidget, n) # {}
           /\ Flag(tocListWidget', n) # {}
           /\ Flag(tocListWidget', n) # Flag(tocListWidget, n))
          => \/ Toggles(n)
             \/ AfterAdd' /\ call'.name = n]_vars

(* ========================== reported outcomes ========================= *)
\* the message boxes of the last call that report success / failure
Reported(m) == {i \in 1..Len(messages) : messages[i] = m}

\* C21: a geoprocessing or raster-algebra call shows exactly one of the success
\* box and the failure box, and when it has shown the success box its result
\* layer is in the registry.
C21_OneOutcomeReported ==
    call.op \in ToolOps
        => /\ Cardinality(Reported(Success)) + Cardinality(Reported(Failure)) = 1
           /\ Reported(Success) # {} => HasKey(layers, call.name)

(* ============================ LST and Band 2 =========================== *)
\* what LST does with the input a and any Band 2 text in place of a.b2
LstAlternatives(a) ==
    {v.r : v \in {w \in LstVariantRuns : /\ w.in.src = a.src
                                          /\ w.in.b1 = a.b1
                                          /\ w.in.env = a.env}}

\* C22: an LST call leaves the outcome, the message boxes, the output file, the
\* registry, the table of contents and the display that the same call with any
\* other Band 2 text leaves from the same state.
C22_LstIgnoresBand2 ==
    [][call'.op = "lstDialog"
        => \A r \in LstAlternatives(call'.in) :
              LET st == AfterLoad(r, "raster", call'.name)
              IN /\ call'.raised = (r.raised \/ st.raised)
                 /\ messages' = IF st.raised THEN Append(r.msgs, Failure) ELSE r.msgs
                 /\ outFile' = r.out
                 /\ layers' = st.layers
                 /\ tocListWidget' = st.toc
                 /\ canvas' = st.canvas]_vars

\* C22 witness: an LST call with a Band 2 text that is not a number wrote its
\* output and registered it
C22_Witness ==
    /\ call.op = "lstDialog"
    /\ ~call.raised
    /\ call.in.b2 = <<"x">>
    /\ outFile.status = "written"
    /\ HasKey(layers, call.name)
    /\ Cardinality(LstAlternatives(call.in)) = 1

\* C22 witness: an LST call failed on its Band 1 text, as it does with every
\* Band 2 text
C22_WitnessFailure ==
    /\ call.op = "lstDialog"
    /\ call.raised
    /\ call.in.b1 = <<"x">>
    /\ outFile.status = "untouched"
    /\ Cardinality(LstAlternatives(call.in)) = 1

(* =============================== saveFile ============================= *)
\* the payloads held in the files the last saveFile wrote
SavedPayloads ==
    {x[1] : x \in {outFile.file.npy, outFile.file.vec} \ {None}}

\* C23: after a saveFile that reported success with two or more layers in the
\* registry, the payload of every layer is held in what was saved; and no
\* saveFile changes the registry, its order or the check states.
C23_SaveKeepsEveryPayload ==
    /\ []((call.op = "saveFile" /\ ~call.raised /\ Len(layers) >= 2)
            => \A i \in 1..Len(layers) : layers[i].data \in SavedPayloads)
    /\ [][call'.op = "saveFile"
            => /\ layers' = layers
               /\ tocListWidget' = tocListWidget]_vars

====
